---- MODULE Spec2Model ----
(***************************************************************************)
(* Stripe webhook ingestion of rhyme-time-app: signature verification,     *)
(* dispatch on the event type, provider lookups, and the upsert of the     *)
(* derived subscription fields into the `subscriptions` table keyed by     *)
(* email.  Every `await` of a handler is a point where another request may *)
(* run, so a request advances in steps: one step per returned promise.     *)
(***************************************************************************)
EXTENDS Integers, Sequences, FiniteSets, TLC

\* ------------------------------------------------------------------ bounds
MaxRequests == 2     \* webhook requests received in one behaviour
MaxTime == 1         \* ticks of the wall clock in one behaviour

\* ------------------------------------------------------------------ values
NULL == "null"               \* JavaScript null / undefined of a string field
NoTime == <<>>               \* JavaScript null of a timestamp field

\* new Date(ms).toISOString(): the stored text is determined by the instant
toISOString(ms) == <<ms>>
\* new Date(seconds * 1000).toISOString()
FromEpochSeconds(s) == toISOString(s * 1000)

Reqs == {"r1", "r2"}         \* requests the runtime handles at the same time

Kinds == {"checkout.session.completed", "customer.subscription.updated",
          "customer.subscription.deleted", "invoice.payment_succeeded",
          "invoice.payment_failed"}
OtherKind == "charge.refunded"

Columns == {"plan", "status", "current_period_start", "current_period_end",
            "canceled_at", "stripe_subscription_id", "stripe_customer_id",
            "updated_at"}
TimeColumns == {"current_period_start", "current_period_end", "canceled_at",
                "updated_at"}

\* ------------------------------------------------------------------ provider
\* customers.retrieve(id).email
CustomerEmail(c) ==
  CASE c = "cus_a" -> "a@x"
    [] c = "cus_b" -> "b@x"
    [] OTHER -> NULL

\* checkout.sessions.retrieve(id): customer_details.email, customer, subscription
Sessions ==
  [cs_sub  |-> [email |-> "a@x", customer |-> "cus_a", subscription |-> "sub_1"],
   cs_one  |-> [email |-> "a@x", customer |-> "cus_a", subscription |-> NULL],
   cs_anon |-> [email |-> NULL, customer |-> NULL, subscription |-> NULL]]
SessionIds == DOMAIN Sessions

\* Subscription objects the provider may hold or send: interval is
\* items.data[0].price.recurring.interval (NULL when absent), the period and
\* canceled_at in epoch seconds (canceled_at 0: not set).
SubObjects ==
  {[id |-> "sub_1", customer |-> "cus_a", interval |-> "month", status |-> "active",
    cps |-> 1, cpe |-> 2, canceled_at |-> 0],
   [id |-> "sub_1", customer |-> "cus_a", interval |-> NULL, status |-> "canceled",
    cps |-> 2, cpe |-> 3, canceled_at |-> 3],
   [id |-> "sub_2", customer |-> "cus_b", interval |-> "year", status |-> "active",
    cps |-> 1, cpe |-> 2, canceled_at |-> 0],
   [id |-> "sub_3", customer |-> "cus_x", interval |-> "month", status |-> "active",
    cps |-> 1, cpe |-> 2, canceled_at |-> 0]}
NoSub == [id |-> NULL, customer |-> NULL, interval |-> NULL, status |-> NULL,
          cps |-> 0, cpe |-> 0, canceled_at |-> 0]

\* Invoices: customer and (optional) subscription
Invoices ==
  {[customer |-> "cus_a", subscription |-> "sub_1"],
   [customer |-> "cus_a", subscription |-> NULL],
   [customer |-> "cus_x", subscription |-> "sub_3"]}

\* event.data.object, one shape for every kind (a checkout session's payload
\* may name a customer and subscription other than the re-fetched session's)
EventObject(session, customer, subscription, sub) ==
  [session |-> session, customer |-> customer, subscription |-> subscription,
   sub |-> sub]
NoObject == EventObject(NULL, NULL, NULL, NoSub)

ObjectsOf(kind) ==
  CASE kind = "checkout.session.completed" ->
         {EventObject(s, NULL, NULL, NoSub) : s \in SessionIds}
           \cup {EventObject("cs_sub", "cus_b", "sub_2", NoSub)}
    [] kind \in {"customer.subscription.updated", "customer.subscription.deleted"} ->
         {EventObject(NULL, s.customer, s.id, s) : s \in SubObjects}
    [] kind \in {"invoice.payment_succeeded", "invoice.payment_failed"} ->
         {EventObject(NULL, i.customer, i.subscription, NoSub) : i \in Invoices}
    [] OTHER -> {NoObject}

\* A provider call resolves, or rejects (network / 5xx, or the object is gone)
LookupOutcomes == {"ok", "ProviderLookupFailed", "EntityNotFound"}

\* ------------------------------------------------------------------ state
VARIABLES
  store,      \* the subscriptions table: email -> row
  req,        \* the requests in flight, one per slot
  now,        \* the wall clock (ms)
  received,   \* requests received so far
  last,       \* per email, the upsert the store applied last
  serial      \* the table had each applied upsert been one indivisible merge

vars == <<store, req, now, received, last, serial>>

NoData == [c \in {} |-> NULL]      \* no upsert body built yet
NoRows == [e \in {} |-> NoData]    \* the empty table

\* The upsert applied last to an email: the event handled, the subscription
\* object used, the event kind of the write before and the status that write
\* left (same: that write was for the same event with the same objects
\* fetched)
NoWrite == [kind |-> NULL, obj |-> NoObject, sub |-> NoSub,
            prev |-> NULL, prevStatus |-> NULL, same |-> FALSE]

Idle ==
  [pc |-> "idle", kind |-> NULL, sigOK |-> TRUE, obj |-> NoObject, sub |-> NoSub,
   email |-> NULL, customer |-> NULL, subscription |-> NULL,
   data |-> NoData, response |-> 0, responses |-> 0, err |-> NULL,
   lookups |-> 0, upserts |-> 0, wrote |-> FALSE, raced |-> FALSE,
   rejected |-> FALSE, fetched |-> NoSub, unsubscribed |-> FALSE]

\* ------------------------------------------------------------------ derivation
\* Variant of constructEvent: the payload is parsed without verification
constructEventUnverified(sigOK) == TRUE

\* stripe.webhooks.constructEvent: returns the event, or throws
constructEvent(sigOK) == sigOK

\* status of the route's catch block, and of its normal completion
WebhookErrorStatus == 400
ReceivedStatus == 200

\* handleCheckoutCompleted: the field set of the upsert (t: time of the call)
CheckoutFields(customerId, subscriptionId, subscription, t) ==
  IF subscriptionId = NULL
    THEN [plan |-> "one_time", status |-> "active",
          current_period_start |-> toISOString(t), current_period_end |-> NoTime,
          stripe_subscription_id |-> subscriptionId,
          stripe_customer_id |-> customerId]
    ELSE [plan |-> IF subscription.interval = NULL THEN "unknown"
                   ELSE subscription.interval,
          status |-> subscription.status,
          current_period_start |-> FromEpochSeconds(subscription.cps),
          current_period_end |-> FromEpochSeconds(subscription.cpe),
          stripe_subscription_id |-> subscriptionId,
          stripe_customer_id |-> customerId]

\* handleSubscriptionChanged: the field set of the upsert
SubscriptionChangedFields(subscription) ==
  [plan |-> IF subscription.interval = NULL THEN "unknown" ELSE subscription.interval,
   status |-> subscription.status,
   current_period_start |-> FromEpochSeconds(subscription.cps),
   current_period_end |-> FromEpochSeconds(subscription.cpe),
   stripe_subscription_id |-> subscription.id]

\* Variant of SubscriptionDeletedFields: the cancellation is not stamped
SubscriptionDeletedFieldsUnstamped(t) == [status |-> "canceled"]

\* handleSubscriptionDeleted: the field set of the upsert
SubscriptionDeletedFields(t) ==
  [status |-> "canceled", canceled_at |-> toISOString(t)]

\* Variant of PaymentFailedFields: the plan and period are reset as well
PaymentFailedFieldsReset ==
  [status |-> "past_due", plan |-> NULL, current_period_start |-> NoTime,
   current_period_end |-> NoTime]

\* handlePaymentFailed: the field set of the upsert
PaymentFailedFields == [status |-> "past_due"]

\* updateSubscription builds the upsert body: the fields and updated_at
UpsertBody(subscriptionData, t) ==
  [c \in (DOMAIN subscriptionData) \cup {"updated_at"} |->
     IF c = "updated_at" THEN toISOString(t) ELSE subscriptionData[c]]

\* A column the insert does not name is NULL
ColumnDefault(c) == IF c \in TimeColumns THEN NoTime ELSE NULL

\* Variant of upsert: the row is replaced, columns the body does not name
\* fall back to NULL
upsertReplacing(table, email, body) ==
  [e \in (DOMAIN table) \cup {email} |->
     IF e # email THEN table[e]
     ELSE [c \in Columns |-> IF c \in DOMAIN body THEN body[c] ELSE ColumnDefault(c)]]

\* upsert(body, {onConflict: 'email'}): insert the row, or on a row with that
\* email set the columns the body names
upsert(table, email, body) ==
  [e \in (DOMAIN table) \cup {email} |->
     IF e # email THEN table[e]
     ELSE [c \in Columns |->
             IF c \in DOMAIN body THEN body[c]
             ELSE IF e \in DOMAIN table THEN table[e][c]
             ELSE ColumnDefault(c)]]

\* Does a handler's catch block throw the error on to the route?
Rethrows(kind) == kind # "invoice.payment_failed"

\* ------------------------------------------------------------------ steps
\* res.status(s).json / send: the request is answered
\* (the event and the objects fetched for it are dropped with the request)
Respond(rq, status, err) ==
  [rq EXCEPT !.pc = "done", !.response = status, !.responses = @ + 1, !.err = err,
             !.obj = NoObject, !.sub = NoSub, !.data = NoData, !.email = NULL,
             !.customer = NULL, !.subscription = NULL, !.fetched = NoSub]

\* An error raised inside a handler: rethrown to the route's catch, or logged
\* by the handler and the route completes normally
Throw(rq, err) ==
  IF Rethrows(rq.kind) THEN Respond(rq, WebhookErrorStatus, err)
  ELSE Respond(rq, ReceivedStatus, err)

\* The handler calls updateSubscription(email, data) and awaits the store
CallUpdate(rq, email, subscriptionData, t) ==
  [rq EXCEPT !.pc = "upsert", !.email = email,
             !.data = UpsertBody(subscriptionData, t), !.upserts = @ + 1]

\* The handler awaits a provider call
Await(rq, what) == [rq EXCEPT !.pc = what, !.lookups = @ + 1]

\* Variant of LookupFailed: handleCheckoutCompleted catches a rejected
\* subscriptions.retrieve and records the purchase with the one-time defaults
LookupFailedFallsBack(rq, outcome, t) ==
  IF rq.kind = "checkout.session.completed" /\ rq.pc = "subscription"
    THEN CallUpdate(rq, rq.email, CheckoutFields(rq.customer, NULL, NoSub, t), t)
    ELSE Throw(rq, outcome)

\* A provider call rejected: the await throws inside the handler
LookupFailed(rq, outcome, t) == Throw(rq, outcome)

\* The provider call the request awaited has rejected
Rejected(rq) == [rq EXCEPT !.rejected = TRUE]

\* Variant of Unhandled: an event type without a case is an error
UnhandledRejected(rq) == Respond(rq, WebhookErrorStatus, "MalformedEvent")

\* switch default: the event type is logged, the route completes normally
Unhandled(rq) == Respond(rq, ReceivedStatus, NULL)

\* Variant of PaidWithoutSubscription: the invoice's customer is looked up
\* as handlePaymentFailed does
PaidWithoutSubscriptionLooksUp(rq) == Await(rq, "customer")

\* handlePaymentSucceeded, invoice.subscription not set: nothing to do
PaidWithoutSubscription(rq) == Respond(rq, ReceivedStatus, NULL)

\* The synchronous part of the route: verify, dispatch, run to the first await
Dispatch(rq) ==
  IF ~constructEvent(rq.sigOK)
    THEN Respond([rq EXCEPT !.kind = NULL], WebhookErrorStatus, "InvalidSignature")
  ELSE CASE rq.kind = "checkout.session.completed" -> Await(rq, "session")
         [] rq.kind = "customer.subscription.updated" ->
              Await([rq EXCEPT !.sub = rq.obj.sub], "customer")
         [] rq.kind = "customer.subscription.deleted" ->
              Await([rq EXCEPT !.sub = rq.obj.sub], "customer")
         [] rq.kind = "invoice.payment_succeeded" ->
              IF rq.obj.subscription # NULL THEN Await(rq, "subscription")
              ELSE PaidWithoutSubscription(rq)
         [] rq.kind = "invoice.payment_failed" -> Await(rq, "customer")
         [] OTHER -> Unhandled(rq)

\* The request as it arrives (unsubscribed: a correctly signed
\* invoice.payment_succeeded whose invoice has no subscription)
Arrived(kind, sigOK, obj) ==
  [Idle EXCEPT !.kind = kind, !.sigOK = sigOK, !.obj = obj,
               !.unsubscribed = /\ sigOK
                                /\ kind = "invoice.payment_succeeded"
                                /\ obj.subscription = NULL]

\* An answered request is gone by the time the next one arrives
Retired(rq) == IF rq.pc = "done" THEN Idle ELSE rq

\* The runtime takes a request into a free slot (the first one, the slots
\* being alike)
Free(r) == req[r].pc \in {"idle", "done"}

Receive(r) ==
  /\ Free(r)
  /\ \A q \in Reqs : Free(q) => ~(r = "r2" /\ q = "r1")
  /\ received < MaxRequests
  /\ \E kind \in Kinds \cup {OtherKind}, sigOK \in BOOLEAN :
       \E obj \in ObjectsOf(kind) :
         req' = [q \in Reqs |->
                   IF q = r THEN Dispatch(Arrived(kind, sigOK, obj))
                   ELSE Retired(req[q])]
  /\ received' = received + 1
  /\ UNCHANGED <<store, now, last, serial>>

\* Variant of AfterSession: the customer and subscription ids are read from
\* the event's session object where it carries them
AfterSessionFromPayload(rq, fullSession, t) ==
  LET customerId == IF rq.obj.customer # NULL THEN rq.obj.customer
                    ELSE fullSession.customer
      subscriptionId == IF rq.obj.subscription # NULL THEN rq.obj.subscription
                        ELSE fullSession.subscription
  IN IF fullSession.email = NULL THEN Throw(rq, "MissingEmail")
     ELSE IF subscriptionId # NULL
       THEN Await([rq EXCEPT !.email = fullSession.email, !.customer = customerId,
                             !.subscription = subscriptionId], "subscription")
       ELSE CallUpdate([rq EXCEPT !.customer = customerId], fullSession.email,
                       CheckoutFields(customerId, NULL, NoSub, t), t)

\* handleCheckoutCompleted after sessions.retrieve resolved with fullSession
AfterSession(rq, fullSession, t) ==
  IF fullSession.email = NULL THEN Throw(rq, "MissingEmail")
  ELSE IF fullSession.subscription # NULL
    THEN Await([rq EXCEPT !.email = fullSession.email,
                          !.customer = fullSession.customer,
                          !.subscription = fullSession.subscription], "subscription")
    ELSE CallUpdate([rq EXCEPT !.customer = fullSession.customer], fullSession.email,
                    CheckoutFields(fullSession.customer, NULL, NoSub, t), t)

SessionRetrieved(r) ==
  /\ req[r].pc = "session"
  /\ \E outcome \in LookupOutcomes :
       req' = [req EXCEPT ![r] =
                 IF outcome = "ok"
                   THEN AfterSession(req[r], Sessions[req[r].obj.session], now)
                   ELSE LookupFailed(Rejected(req[r]), outcome, now)]
  /\ UNCHANGED <<store, now, received, last, serial>>

\* Variant of AfterSubscription: handlePaymentSucceeded marks the invoice's
\* customer active itself
AfterSubscriptionMarksActive(rq, subscription, t) ==
  IF rq.kind = "checkout.session.completed"
    THEN CallUpdate([rq EXCEPT !.sub = subscription], rq.email,
                    CheckoutFields(rq.customer, rq.subscription, subscription, t), t)
    ELSE IF CustomerEmail(rq.obj.customer) = NULL THEN Throw(rq, "MissingEmail")
    ELSE CallUpdate([rq EXCEPT !.sub = subscription], CustomerEmail(rq.obj.customer),
                    [status |-> "active",
                     current_period_end |-> FromEpochSeconds(subscription.cpe)], t)

\* After subscriptions.retrieve resolved: handleCheckoutCompleted goes on to
\* the upsert, handlePaymentSucceeded calls handleSubscriptionChanged
AfterSubscription(rq, subscription, t) ==
  IF rq.kind = "checkout.session.completed"
    THEN CallUpdate([rq EXCEPT !.sub = subscription], rq.email,
                    CheckoutFields(rq.customer, rq.subscription, subscription, t), t)
    ELSE Await([rq EXCEPT !.sub = subscription], "customer")

SubscriptionRetrieved(r) ==
  /\ req[r].pc = "subscription"
  /\ \E outcome \in LookupOutcomes :
       IF outcome = "ok"
         THEN \E s \in SubObjects :
                /\ s.id = (IF req[r].kind = "checkout.session.completed"
                             THEN req[r].subscription ELSE req[r].obj.subscription)
                /\ req' = [req EXCEPT ![r] =
                             AfterSubscription([req[r] EXCEPT !.fetched = s], s, now)]
         ELSE req' = [req EXCEPT ![r] = LookupFailed(Rejected(req[r]), outcome, now)]
  /\ UNCHANGED <<store, now, received, last, serial>>

\* After customers.retrieve resolved with the customer's email
AfterCustomer(rq, email, t) ==
  IF email = NULL THEN Throw(rq, "MissingEmail")
  ELSE CASE rq.kind = "customer.subscription.deleted" ->
              CallUpdate(rq, email, SubscriptionDeletedFields(t), t)
         [] rq.kind = "invoice.payment_failed" ->
              CallUpdate(rq, email, PaymentFailedFields, t)
         [] OTHER -> CallUpdate(rq, email, SubscriptionChangedFields(rq.sub), t)

\* The customer the handler looks up
CustomerOf(rq) ==
  IF rq.kind \in {"invoice.payment_failed"} THEN rq.obj.customer ELSE rq.sub.customer

CustomerRetrieved(r) ==
  /\ req[r].pc = "customer"
  /\ \E outcome \in LookupOutcomes :
       req' = [req EXCEPT ![r] =
                 IF outcome = "ok"
                   THEN AfterCustomer(req[r], CustomerEmail(CustomerOf(req[r])), now)
                   ELSE LookupFailed(Rejected(req[r]), outcome, now)]
  /\ UNCHANGED <<store, now, received, last, serial>>

\* Another request is awaiting its own write to the same email
Racing(r) ==
  \E q \in Reqs \ {r} : req[q].pc = "upsert" /\ req[q].email = req[r].email

\* The record of the write request r is awaiting
Written(r) ==
  LET e == req[r].email
      before == IF e \in DOMAIN last THEN last[e] ELSE NoWrite
  IN [kind |-> req[r].kind, obj |-> req[r].obj, sub |-> req[r].sub,
      prev |-> before.kind,
      prevStatus |-> IF e \in DOMAIN store THEN store[e].status ELSE NULL,
      same |-> /\ before.kind = req[r].kind
               /\ before.obj = req[r].obj
               /\ before.sub = req[r].sub]

\* One indivisible merge of a body into the row of an email: the columns the
\* body names take its values, every other column and row stays
AtomicMerge(table, email, body) ==
  [e \in (DOMAIN table) \cup {email} |->
     [c \in Columns |->
        IF e = email /\ c \in DOMAIN body THEN body[c]
        ELSE IF e \in DOMAIN table THEN table[e][c]
        ELSE IF c \in TimeColumns THEN NoTime ELSE NULL]]

\* The store answers the upsert: applied, or {error}
UpsertReturned(r) ==
  /\ req[r].pc = "upsert"
  /\ \/ /\ store' = upsert(store, req[r].email, req[r].data)
        /\ serial' = AtomicMerge(serial, req[r].email, req[r].data)
        /\ last' = [e \in (DOMAIN last) \cup {req[r].email} |->
                      IF e = req[r].email THEN Written(r) ELSE last[e]]
        /\ req' = [req EXCEPT ![r] =
                     Respond([req[r] EXCEPT !.wrote = TRUE, !.raced = Racing(r)],
                             ReceivedStatus, NULL)]
     \/ /\ req' = [req EXCEPT ![r] = Throw(req[r], "StoreError")]
        /\ UNCHANGED <<store, last, serial>>
  /\ UNCHANGED <<now, received>>

\* The clock advances
Tick ==
  /\ now < MaxTime
  /\ now' = now + 1
  /\ UNCHANGED <<store, req, received, last, serial>>

\* The table outlives the server: it starts with the row an earlier
\* customer.subscription.updated of sub_2 left for b@x, and none for a@x
EarlierSub == CHOOSE s \in SubObjects : s.id = "sub_2"
EarlierRow == upsert(NoRows, "b@x", UpsertBody(SubscriptionChangedFields(EarlierSub), 0))
EarlierWrite ==
  [NoWrite EXCEPT !.kind = "customer.subscription.updated", !.sub = EarlierSub,
                  !.obj = EventObject(NULL, EarlierSub.customer, EarlierSub.id, EarlierSub)]

Init ==
  /\ store = EarlierRow
  /\ req = [r \in Reqs |-> Idle]
  /\ now = 0
  /\ received = 0
  /\ last = [e \in DOMAIN store |-> EarlierWrite]
  /\ serial = store

Next ==
  \/ \E r \in Reqs : Receive(r)
  \/ \E r \in Reqs : SessionRetrieved(r)
  \/ \E r \in Reqs : SubscriptionRetrieved(r)
  \/ \E r \in Reqs : CustomerRetrieved(r)
  \/ \E r \in Reqs : UpsertReturned(r)
  \/ Tick

Spec == Init /\ [][Next]_vars

\* ------------------------------------------------------------------ first draft
\* The first draft of the /stripe-webhook route handles the checkout event in
\* the route itself and names every column in its upsert.
DraftFields(customerId, subscriptionId, sub, t) ==
  IF subscriptionId = NULL
    THEN [plan |-> NULL, status |-> "active",
          current_period_start |-> NoTime, current_period_end |-> NoTime,
          stripe_subscription_id |-> subscriptionId,
          stripe_customer_id |-> customerId,
          canceled_at |-> NoTime, updated_at |-> toISOString(t)]
    ELSE [plan |-> sub.interval, status |-> sub.status,
          current_period_start |-> FromEpochSeconds(sub.cps),
          current_period_end |-> FromEpochSeconds(sub.cpe),
          stripe_subscription_id |-> subscriptionId,
          stripe_customer_id |-> customerId,
          canceled_at |-> IF sub.canceled_at # 0 THEN FromEpochSeconds(sub.canceled_at)
                          ELSE NoTime,
          updated_at |-> toISOString(t)]

\* The draft's try has no catch and its normal path sends nothing: the
\* request ends without a response
DraftEnd(rq, err) ==
  [rq EXCEPT !.pc = "done", !.err = err,
             !.obj = NoObject, !.sub = NoSub, !.data = NoData, !.email = NULL,
             !.customer = NULL, !.subscription = NULL, !.fetched = NoSub]

\* The draft awaits supabase.upsert with the body it built
DraftCallUpsert(rq, email, body) ==
  [rq EXCEPT !.pc = "upsert", !.email = email, !.data = body, !.upserts = @ + 1]

DraftDispatch(rq) ==
  IF ~constructEvent(rq.sigOK) THEN DraftEnd([rq EXCEPT !.kind = NULL], "InvalidSignature")
  ELSE IF rq.kind = "checkout.session.completed" THEN Await(rq, "session")
  ELSE DraftEnd(rq, NULL)

DraftReceive(r) ==
  /\ Free(r)
  /\ \A q \in Reqs : Free(q) => ~(r = "r2" /\ q = "r1")
  /\ received < MaxRequests
  /\ \E kind \in Kinds \cup {OtherKind}, sigOK \in BOOLEAN :
       \E obj \in ObjectsOf(kind) :
         req' = [q \in Reqs |->
                   IF q = r THEN DraftDispatch(Arrived(kind, sigOK, obj))
                   ELSE Retired(req[q])]
  /\ received' = received + 1
  /\ UNCHANGED <<store, now, last, serial>>

\* After sessions.retrieve resolved: the email may be null, and is not checked
DraftAfterSession(rq, session, t) ==
  IF session.subscription # NULL
    THEN Await([rq EXCEPT !.email = session.email, !.customer = session.customer,
                          !.subscription = session.subscription], "subscription")
    ELSE DraftCallUpsert([rq EXCEPT !.customer = session.customer], session.email,
                         DraftFields(session.customer, NULL, NoSub, t))

DraftSessionRetrieved(r) ==
  /\ req[r].pc = "session"
  /\ \E outcome \in LookupOutcomes :
       req' = [req EXCEPT ![r] =
                 IF outcome = "ok"
                   THEN DraftAfterSession(req[r], Sessions[req[r].obj.session], now)
                   ELSE DraftEnd(Rejected(req[r]), outcome)]
  /\ UNCHANGED <<store, now, received, last, serial>>

DraftSubscriptionRetrieved(r) ==
  /\ req[r].pc = "subscription"
  /\ \E outcome \in LookupOutcomes :
       IF outcome = "ok"
         THEN \E s \in SubObjects :
                /\ s.id = req[r].subscription
                /\ req' = [req EXCEPT ![r] =
                             DraftCallUpsert([req[r] EXCEPT !.sub = s, !.fetched = s],
                                             req[r].email,
                               DraftFields(req[r].customer, req[r].subscription, s, now))]
         ELSE req' = [req EXCEPT ![r] = DraftEnd(Rejected(req[r]), outcome)]
  /\ UNCHANGED <<store, now, received, last, serial>>

DraftErrorStatus == 500

\* The store answers the draft's upsert: applied (and logged), or {error},
\* which the draft answers with 500
DraftUpsertReturned(r) ==
  /\ req[r].pc = "upsert"
  /\ \/ /\ store' = upsert(store, req[r].email, req[r].data)
        /\ serial' = AtomicMerge(serial, req[r].email, req[r].data)
        /\ last' = [e \in (DOMAIN last) \cup {req[r].email} |->
                      IF e = req[r].email THEN Written(r) ELSE last[e]]
        /\ req' = [req EXCEPT ![r] =
                     DraftEnd([req[r] EXCEPT !.wrote = TRUE, !.raced = Racing(r)], NULL)]
     \/ /\ req' = [req EXCEPT ![r] = Respond(req[r], DraftErrorStatus, "StoreError")]
        /\ UNCHANGED <<store, last, serial>>
  /\ UNCHANGED <<now, received>>

NextDraft ==
  \/ \E r \in Reqs : DraftReceive(r)
  \/ \E r \in Reqs : DraftSessionRetrieved(r)
  \/ \E r \in Reqs : DraftSubscriptionRetrieved(r)
  \/ \E r \in Reqs : DraftUpsertReturned(r)
  \/ Tick

SpecDraft == Init /\ [][NextDraft]_vars

\* ------------------------------------------------------------------ claims
\* Request r's awaited upsert is applied by this step
Applies(r) == req[r].pc = "upsert" /\ req'[r].wrote

\* C1: a request whose signature verification fails is answered 400 and has
\* issued no provider lookup and no store upsert, so the table is as it was.
C1_InvalidSignatureRejected ==
  \A r \in Reqs :
    (req[r].pc # "idle" /\ ~req[r].sigOK) =>
      /\ req[r].pc = "done"
      /\ req[r].response = 400
      /\ req[r].responses = 1
      /\ req[r].lookups = 0
      /\ req[r].upserts = 0
      /\ ~req[r].wrote

\* a bad signature was rejected while the table held a row and another
\* request was being handled
C1_Witness ==
  \E r \in Reqs, q \in Reqs :
    /\ ~req[r].sigOK /\ req[r].pc = "done" /\ req[r].response = 400
    /\ req[q].pc = "upsert"
    /\ store # NoRows

\* C2: every stored row with status canceled has a non-null canceled_at,
\* whatever events were handled.
C2_CanceledHasCanceledAt ==
  \A e \in DOMAIN store :
    store[e].status = "canceled" => store[e].canceled_at # NoTime

\* C3: a checkout.session.completed handled again, with the same session and
\* subscription fetched, leaves every column but updated_at as the first
\* delivery left it.
C3_CheckoutIdempotent ==
  [][\A r \in Reqs :
       (/\ Applies(r)
        /\ req[r].kind = "checkout.session.completed"
        /\ req[r].email \in DOMAIN store
        /\ Written(r).same) =>
         \A c \in Columns \ {"updated_at"} :
           store'[req[r].email][c] = store[req[r].email][c]]_vars

C5_StoreErrorIs500 ==
  \A r \in Reqs : req[r].err = "StoreError" => req[r].response = 500

\* C6: a request for which no email can be determined issues no store upsert:
\* no upsert is ever awaited or applied under a null email.
C6_NoUpsertWithoutEmail ==
  /\ \A r \in Reqs : req[r].pc = "upsert" => req[r].email # NULL
  /\ NULL \notin DOMAIN store

\* C7: a failed provider lookup is answered with a 5xx status.
C7_LookupFailureIs5xx ==
  \A r \in Reqs : req[r].err = "ProviderLookupFailed" => req[r].response >= 500

\* C8: a request one of whose provider lookups failed issues no store upsert.
C8_NoUpsertAfterFailedLookup ==
  \A r \in Reqs :
    req[r].rejected => req[r].upserts = 0 /\ ~req[r].wrote

\* the subscription lookup of a checkout failed after its session was fetched
C8_Witness ==
  \E r \in Reqs :
    /\ req[r].pc = "done" /\ req[r].kind = "checkout.session.completed"
    /\ req[r].rejected /\ req[r].lookups = 2 /\ req[r].response = 400

\* C9: invoice.payment_failed applied after a customer.subscription.updated
\* with status active leaves status past_due and the plan and period that
\* update wrote.
C9_PaymentFailedKeepsPlan ==
  [][\A r \in Reqs :
       LET e == req[r].email IN
       (/\ Applies(r)
        /\ req[r].kind = "invoice.payment_failed"
        /\ e \in DOMAIN last
        /\ last[e].kind = "customer.subscription.updated"
        /\ last[e].sub.status = "active") =>
         /\ store'[e].status = "past_due"
         /\ store'[e].plan = (IF last[e].sub.interval = NULL THEN "unknown"
                               ELSE last[e].sub.interval)
         /\ store'[e].current_period_start = <<last[e].sub.cps * 1000>>
         /\ store'[e].current_period_end = <<last[e].sub.cpe * 1000>>]_vars

C9_Witness ==
  /\ "a@x" \in DOMAIN last
  /\ last["a@x"].kind = "invoice.payment_failed"
  /\ last["a@x"].prev = "customer.subscription.updated"
  /\ last["a@x"].prevStatus = "active"
  /\ store["a@x"].status = "past_due"
  /\ store["a@x"].plan = "month"

\* C10: customer.subscription.deleted applied to an email with an active row
\* sets status canceled and canceled_at to the time of the write, and leaves
\* the plan, the period, the provider ids and every other row as they were.
C10_DeletedOnlyCancels ==
  [][\A r \in Reqs :
       LET e == req[r].email IN
       (/\ Applies(r)
        /\ req[r].kind = "customer.subscription.deleted"
        /\ e \in DOMAIN store
        /\ store[e].status = "active") =>
         /\ store'[e].status = "canceled"
         /\ store'[e].canceled_at # NoTime
         /\ store'[e].canceled_at = store'[e].updated_at
         /\ \A c \in {"plan", "current_period_start", "current_period_end",
                      "stripe_subscription_id", "stripe_customer_id"} :
              store'[e][c] = store[e][c]
         /\ DOMAIN store' = DOMAIN store
         /\ \A o \in DOMAIN store \ {e} : store'[o] = store[o]]_vars

C10_Witness ==
  /\ DOMAIN last = {"a@x", "b@x"}
  /\ last["a@x"].kind = "customer.subscription.deleted"
  /\ last["a@x"].prev = "customer.subscription.updated"
  /\ last["a@x"].prevStatus = "active"
  /\ store["a@x"].status = "canceled"
  /\ store["a@x"].plan = "month"
  /\ store["a@x"].canceled_at = <<1>>

\* C11: a correctly signed event of no known kind is answered 200, raises no
\* error and issues no provider lookup and no store upsert.
C11_UnknownKindAcknowledged ==
  \A r \in Reqs :
    (req[r].pc # "idle" /\ req[r].sigOK /\ req[r].kind = OtherKind) =>
      /\ req[r].pc = "done"
      /\ req[r].response = 200
      /\ req[r].responses = 1
      /\ req[r].err = NULL
      /\ req[r].lookups = 0
      /\ req[r].upserts = 0
      /\ ~req[r].wrote

\* an unhandled event was acknowledged while another request awaited its write
C11_Witness ==
  \E r \in Reqs, q \in Reqs :
    /\ req[r].pc = "done" /\ req[r].kind = OtherKind /\ req[r].response = 200
    /\ req[q].pc = "upsert"

\* C12: a row's stripe_subscription_id, once non-null, is never set back to
\* null by any event.
C12_SubscriptionIdNeverReset ==
  [][\A e \in DOMAIN store :
       store[e].stripe_subscription_id # NULL =>
         store'[e].stripe_subscription_id # NULL]_vars

\* C13: only checkout.session.completed creates a row, and no row is ever
\* deleted.
C13_OnlyCheckoutCreates ==
  [][/\ DOMAIN store \subseteq DOMAIN store'
     /\ \A r \in Reqs :
          (Applies(r) /\ req[r].email \notin DOMAIN store) =>
            req[r].kind = "checkout.session.completed"]_vars

\* C14: a row's canceled_at is non-null only while its status is canceled.
C14_CanceledAtOnlyIfCanceled ==
  \A e \in DOMAIN store :
    store[e].canceled_at # NoTime => store[e].status = "canceled"

\* C15: an event that cannot be tied to an email, or whose provider object
\* no longer exists, is acknowledged with 200 and issues no store upsert.
C15_TerminalErrorsAcknowledged ==
  \A r \in Reqs :
    req[r].err \in {"MissingEmail", "EntityNotFound"} =>
      req[r].response = 200 /\ req[r].upserts = 0

\* C16: a checkout.session.completed whose re-fetched session has an email
\* and no subscription writes plan one_time, status active,
\* current_period_start the time of the write and current_period_end null.
C16_OneTimeCheckoutFields ==
  [][\A r \in Reqs :
       LET e == req[r].email IN
       (/\ Applies(r)
        /\ req[r].kind = "checkout.session.completed"
        /\ req[r].subscription = NULL
        /\ e # NULL) =>
         /\ store'[e].plan = "one_time"
         /\ store'[e].status = "active"
         /\ store'[e].current_period_start # NoTime
         /\ store'[e].current_period_start = store'[e].updated_at
         /\ store'[e].current_period_end = NoTime]_vars

\* C17: a checkout.session.completed whose re-fetched session names a
\* subscription writes plan, status and period of the subscription object
\* fetched for that id, whatever the event's own session object carries.
C17_CheckoutFromFetchedSubscription ==
  [][\A r \in Reqs :
       LET e == req[r].email
           session == Sessions[req[r].obj.session]
           fresh == req[r].fetched
       IN (/\ Applies(r)
           /\ req[r].kind = "checkout.session.completed"
           /\ session.subscription # NULL) =>
            /\ fresh.id = session.subscription
            /\ e = session.email
            /\ store'[e].plan = (IF fresh.interval = NULL THEN "unknown"
                                 ELSE fresh.interval)
            /\ store'[e].status = fresh.status
            /\ store'[e].current_period_start = <<fresh.cps * 1000>>
            /\ store'[e].current_period_end = <<fresh.cpe * 1000>>
            /\ store'[e].stripe_subscription_id = session.subscription
            /\ store'[e].stripe_customer_id = session.customer]_vars

\* the event's session object named sub_2 and cus_b, the row was written from
\* the fetched sub_1
C17_Witness ==
  /\ "a@x" \in DOMAIN last
  /\ last["a@x"].kind = "checkout.session.completed"
  /\ last["a@x"].obj.subscription = "sub_2"
  /\ last["a@x"].sub.id = "sub_1"
  /\ store["a@x"].stripe_subscription_id = "sub_1"
  /\ store["a@x"].plan = "month"

\* C18: invoice.payment_succeeded with a subscription issues the upsert a
\* customer.subscription.updated carrying the re-fetched subscription object
\* issues: the same email, the same columns, the same values (updated_at aside).
C18_PaymentSucceededAsUpdate ==
  \A r \in Reqs, q \in Reqs :
    (/\ req[r].pc = "upsert" /\ req[r].kind = "invoice.payment_succeeded"
     /\ req[q].pc = "upsert" /\ req[q].kind = "customer.subscription.updated"
     /\ req[r].fetched = req[q].obj.sub) =>
      /\ req[r].email = req[q].email
      /\ DOMAIN req[r].data = DOMAIN req[q].data
      /\ \A c \in DOMAIN req[r].data \ {"updated_at"} :
           req[r].data[c] = req[q].data[c]

C18_Witness ==
  \E r \in Reqs, q \in Reqs :
    /\ req[r].pc = "upsert" /\ req[r].kind = "invoice.payment_succeeded"
    /\ req[q].pc = "upsert" /\ req[q].kind = "customer.subscription.updated"
    /\ req[r].fetched = req[q].obj.sub
    /\ req[r].fetched.status = "canceled"
    /\ req[r].data.status = "canceled"

\* C19: invoice.payment_succeeded for an invoice without subscription is
\* answered 200 and issues no provider lookup and no store upsert.
C19_PaidWithoutSubscriptionIsNoOp ==
  \A r \in Reqs :
    req[r].unsubscribed =>
      /\ req[r].pc = "done"
      /\ req[r].response = 200
      /\ req[r].responses = 1
      /\ req[r].lookups = 0
      /\ req[r].upserts = 0
      /\ ~req[r].wrote

C19_Witness ==
  \E r \in Reqs, q \in Reqs :
    /\ req[r].unsubscribed /\ req[r].pc = "done" /\ req[r].response = 200
    /\ req[r].kind = "invoice.payment_succeeded"
    /\ req[q].pc = "upsert"

\* C20: a request that has ended was answered exactly once, and no response
\* is sent while the request still awaits a lookup or its upsert.
C20_ExactlyOneResponse ==
  \A r \in Reqs :
    /\ req[r].pc = "done" => req[r].responses = 1
    /\ req[r].pc \in {"session", "subscription", "customer", "upsert"} =>
         req[r].responses = 0

====
